---- MODULE Spec2Model ----
\* Model of the in-memory key-value engine of src/database.py (class InMemoryDB):
\* the committed map, the value counter, and the transaction stack, with one
\* action per public method.
EXTENDS Integers, Sequences, FiniteSets, TLC

\* ---------------------------------------------------------------- bounds
\* Number of distinct alphanumeric keys and values the callers use.
NumKeys == 2
NumValues == 3
\* The configured limits (config.ini, read at construction): a depth that lets
\* two nested transactions be written to, a size the keys above never reach,
\* and a tight size that they do reach.
MaxDepthConfig == 3
MaxSizeConfig == 3
TightSizeConfig == 1

\* Keys in lexicographic order, so that the position of a key is its rank
\* under Python's sorted().
KeyUniverse == <<"a", "b", "c", "d">>
\* The string "NULL" is alphanumeric, hence a storable value.
ValueUniverse == <<"1", "NULL", "2", "3", "4">>

Keys == {KeyUniverse[i] : i \in 1..NumKeys}
Values == {ValueUniverse[i] : i \in 1..NumValues}

\* A token that str.isalnum() rejects.
NonAlnum == "#"
KeyInputs == Keys \cup {NonAlnum}
ValueInputs == Values \cup {NonAlnum}

VARIABLES
    main_db,             \* self._main_db: dict key -> value
    counts,              \* self._counts: defaultdict(int) value -> count
    transaction_stack,   \* self._transaction_stack: list of frames, innermost last
    MAX_TRANSACTION_DEPTH, \* self.__MAX_TRANSACTION_DEPTH
    MAX_DB_SIZE,         \* self.__MAX_DB_SIZE
    last,                \* the last call made on the engine and what it returned or raised
    begun,               \* history: for each open frame, what the reads returned when it was begun
    scn,                 \* history: progress of the call sequence begin; writes; begin; set; commit; rollback
    undone,              \* history: what the last call, if a rollback that popped a frame, had to restore
    pre                  \* history: what the engine held before the last call, where the call must keep it

vars == <<main_db, counts, transaction_stack, MAX_TRANSACTION_DEPTH, MAX_DB_SIZE, last, begun, scn,
          undone, pre>>
config == <<MAX_TRANSACTION_DEPTH, MAX_DB_SIZE>>

\* ---------------------------------------------------------------- dicts
\* A dict whose iteration order is never used: a function on the set of its keys.
EmptyDict == [x \in {} |-> "NULL"]
Put(d, k, v) == [x \in (DOMAIN d) \cup {k} |-> IF x = k THEN v ELSE d[x]]
Del(d, k) == [x \in (DOMAIN d) \ {k} |-> d[x]]

\* A dict that is iterated (a frame's "updates"): the sequence of its
\* <<key, value>> items in insertion order; assigning to a key it holds keeps
\* the key's position.
ItemKeys(u) == {u[i][1] : i \in 1..Len(u)}
ItemGet(u, k) == LET i == CHOOSE j \in 1..Len(u) : u[j][1] = k IN u[i][2]
ItemPut(u, k, v) ==
    IF k \in ItemKeys(u)
    THEN [i \in 1..Len(u) |-> IF u[i][1] = k THEN <<k, v>> ELSE u[i]]
    ELSE Append(u, <<k, v>>)
ItemSet(u) == {u[i] : i \in 1..Len(u)}

\* Equality of two frames as Python compares dicts: by content, not by order.
FrameEq(f, g) == ItemSet(f.updates) = ItemSet(g.updates) /\ f.old_values = g.old_values

EmptyFrame == [updates |-> <<>>, old_values |-> EmptyDict]

\* ---------------------------------------------------------------- helpers
db_size == Cardinality(DOMAIN main_db)
transaction_depth == Len(transaction_stack)

isalnum(s) == s \in Keys \cup Values

\* _validate_string returns True when the string is NOT acceptable.
validate_string(s) == ~isalnum(s)

\* A faulty decrement: the counter that reaches zero is kept.
DecrementKeepsZero(c, v) == Put(c, v, (IF v \in DOMAIN c THEN c[v] ELSE 0) - 1)

\* Decrement a counter of the defaultdict, deleting it when it reaches zero.
Decrement(c, v) ==
    LET n == (IF v \in DOMAIN c THEN c[v] ELSE 0) - 1
    IN IF n = 0 THEN Del(c, v) ELSE Put(c, v, n)
Increment(c, v) == Put(c, v, (IF v \in DOMAIN c THEN c[v] ELSE 0) + 1)

\* _update_main_db on (db, c): the pair after the update.
update_main_db(db, c, key, value) ==
    LET c1 == IF key \in DOMAIN db THEN Decrement(c, db[key]) ELSE c
    IN [db |-> Put(db, key, value), counts |-> Increment(c1, value)]

\* A call and its outcome; staged is the number of staged writes a rollback threw away.
Call(op, res) == [op |-> op, res |-> res, staged |-> 0]

\* ---------------------------------------------------------------- reads
\* A faulty get_value loop: without reversed(), so that the outermost frame
\* mentioning the key wins.
ScanOutermostFirst(db, stack, i, key) ==
    LET S == {j \in 1..i : key \in ItemKeys(stack[j].updates)}
    IN IF S = {} THEN (IF key \in DOMAIN db THEN db[key] ELSE "NULL")
       ELSE ItemGet(stack[CHOOSE j \in S : \A h \in S : j <= h].updates, key)

RECURSIVE ScanInnermost(_, _, _, _)
\* get_value's loop over reversed(stack): i runs from the innermost frame down;
\* when no frame mentions the key, self._main_db.get(key, "NULL").
ScanInnermost(db, stack, i, key) ==
    IF i = 0 THEN (IF key \in DOMAIN db THEN db[key] ELSE "NULL")
    ELSE IF key \in ItemKeys(stack[i].updates) THEN ItemGet(stack[i].updates, key)
    ELSE ScanInnermost(db, stack, i - 1, key)

get_in(db, stack, key) ==
    IF validate_string(key) THEN "ERROR: Invalid key format"
    ELSE ScanInnermost(db, stack, Len(stack), key)

get_value(key) == get_in(main_db, transaction_stack, key)

\* list.index(transaction): the position of the first frame EQUAL to it.
IndexOf(stack, p) == CHOOSE j \in 1..p : FrameEq(stack[j], stack[p]) /\
                                         \A h \in 1..(j - 1) : ~FrameEq(stack[h], stack[p])

\* What count_values returns: the count n, or err when it returns an error
\* string or raises.
Counted(n) == [err |-> "", n |-> n]
CountFailed(e) == [err |-> e, n |-> 0]

\* One pass of the body of count_values' inner loop, for item i of frame p.
CountItem(db, stack, p, i, value, acc) ==
    LET transaction == stack[p]
        key == transaction.updates[i][1]
        val == transaction.updates[i][2]
        before == IndexOf(stack, p) - 1
        touched == key \in DOMAIN db
                   \/ \E t \in 1..before :
                         key \in ItemKeys(stack[t].updates)
                         /\ ItemGet(stack[t].updates, key) # "NULL"
        \* old_values.get(key, self._main_db[key]) evaluates the default first
        raises == touched /\ key \notin DOMAIN db
        old == IF key \in DOMAIN transaction.old_values
               THEN transaction.old_values[key] ELSE db[key]
        n1 == IF touched /\ old = value THEN acc.n - 1 ELSE acc.n
        n2 == IF val = value THEN n1 + 1
              ELSE IF val = "NULL" /\ key \in DOMAIN transaction.old_values
                      /\ transaction.old_values[key] = value
                   THEN n1 - 1
                   ELSE n1
    IN IF raises THEN CountFailed("KeyError") ELSE Counted(n2)

RECURSIVE CountLoop(_, _, _, _, _, _)
\* The two nested loops of count_values, from item i of frame p on.
CountLoop(db, stack, p, i, value, acc) ==
    IF acc.err # "" \/ p > Len(stack) THEN acc
    ELSE IF i > Len(stack[p].updates) THEN CountLoop(db, stack, p + 1, 1, value, acc)
    ELSE CountLoop(db, stack, p, i + 1, value, CountItem(db, stack, p, i, value, acc))

count_in(db, c, stack, value) ==
    IF validate_string(value) THEN CountFailed("ERROR: Invalid value format")
    ELSE CountLoop(db, stack, 1, 1, value,
                   Counted(IF value \in DOMAIN c THEN c[value] ELSE 0))

count_values(value) == count_in(main_db, counts, transaction_stack, value)

RECURSIVE FindLoop(_, _, _, _, _)
\* The two nested loops of find_keys, from item i of frame p on.
FindLoop(stack, p, i, value, keys) ==
    IF p > Len(stack) THEN keys
    ELSE IF i > Len(stack[p].updates) THEN FindLoop(stack, p + 1, 1, value, keys)
    ELSE LET key == stack[p].updates[i][1]
             val == stack[p].updates[i][2]
         IN FindLoop(stack, p, i + 1, value,
                     IF val = value THEN keys \cup {key}
                     ELSE IF val = "NULL" /\ key \in keys THEN keys \ {key}
                     ELSE keys)

Rank(k) == CHOOSE i \in 1..Len(KeyUniverse) : KeyUniverse[i] = k

RECURSIVE sorted(_)
\* Python's sorted() on a set of keys: ascending lexicographic order.
sorted(S) ==
    IF S = {} THEN <<>>
    ELSE LET m == CHOOSE k \in S : \A o \in S : Rank(k) <= Rank(o)
         IN <<m>> \o sorted(S \ {m})

\* What find_keys returns: a sorted list, or the string in str ("NULL", or the
\* error text).
Found(keys) == [str |-> "", keys |-> keys]
FoundStr(s) == [str |-> s, keys |-> <<>>]

find_in(db, stack, value) ==
    IF validate_string(value) THEN FoundStr("ERROR: Invalid value format")
    ELSE LET keys == FindLoop(stack, 1, 1, value, {k \in DOMAIN db : db[k] = value})
         IN IF keys # {} THEN Found(sorted(keys)) ELSE FoundStr("NULL")

find_keys(value) == find_in(main_db, transaction_stack, value)

\* ---------------------------------------------------------------- writes
\* The four lines both set_value and unset_value run on the innermost frame.
SetInFrame(f, key, value) ==
    [updates |-> ItemPut(f.updates, key, value),
     old_values |-> IF key \notin DOMAIN f.old_values /\ key \in DOMAIN main_db
                    THEN Put(f.old_values, key, main_db[key])
                    ELSE f.old_values]

ReplaceTop(stack, f) == [stack EXCEPT ![Len(stack)] = f]

\* A faulty set_value: inside a transaction it also writes the committed map.
set_value_writes_through(key, value) ==
    IF ~isalnum(key) \/ ~isalnum(value)
    THEN /\ last' = Call("set", "ValueError")
         /\ UNCHANGED <<main_db, counts, transaction_stack>>
    ELSE IF db_size >= MAX_DB_SIZE /\ transaction_stack # <<>>
    THEN /\ last' = Call("set", "MemoryError")
         /\ UNCHANGED <<main_db, counts, transaction_stack>>
    ELSE IF transaction_stack # <<>> /\ transaction_depth >= MAX_TRANSACTION_DEPTH
    THEN /\ last' = Call("set", "RecursionError")
         /\ UNCHANGED <<main_db, counts, transaction_stack>>
    ELSE LET r == update_main_db(main_db, counts, key, value)
         IN /\ main_db' = r.db
            /\ counts' = r.counts
            /\ last' = Call("set", "ok")
            /\ transaction_stack' =
                  IF transaction_stack = <<>> THEN transaction_stack
                  ELSE ReplaceTop(transaction_stack,
                                  SetInFrame(transaction_stack[Len(transaction_stack)], key, value))

set_value(key, value) ==
    IF ~isalnum(key) \/ ~isalnum(value)
    THEN /\ last' = Call("set", "ValueError")
         /\ UNCHANGED <<main_db, counts, transaction_stack>>
    ELSE IF db_size >= MAX_DB_SIZE /\ transaction_stack # <<>>
    THEN /\ last' = Call("set", "MemoryError")
         /\ UNCHANGED <<main_db, counts, transaction_stack>>
    ELSE IF transaction_stack # <<>>
    THEN IF transaction_depth >= MAX_TRANSACTION_DEPTH
         THEN /\ last' = Call("set", "RecursionError")
              /\ UNCHANGED <<main_db, counts, transaction_stack>>
         ELSE /\ transaction_stack' =
                    ReplaceTop(transaction_stack,
                               SetInFrame(transaction_stack[Len(transaction_stack)], key, value))
              /\ last' = Call("set", "ok")
              /\ UNCHANGED <<main_db, counts>>
    ELSE LET r == update_main_db(main_db, counts, key, value)
         IN /\ main_db' = r.db
            /\ counts' = r.counts
            /\ last' = Call("set", "ok")
            /\ UNCHANGED transaction_stack

unset_value(key) ==
    IF validate_string(key)
    THEN /\ last' = Call("unset", "ValueError")
         /\ UNCHANGED <<main_db, counts, transaction_stack>>
    ELSE IF transaction_stack # <<>>
    THEN /\ transaction_stack' =
               ReplaceTop(transaction_stack,
                          SetInFrame(transaction_stack[Len(transaction_stack)], key, "NULL"))
         /\ last' = Call("unset", "ok")
         /\ UNCHANGED <<main_db, counts>>
    ELSE /\ IF key \in DOMAIN main_db
            THEN /\ main_db' = Del(main_db, key)
                 /\ counts' = Decrement(counts, main_db[key])
            ELSE UNCHANGED <<main_db, counts>>
         /\ last' = Call("unset", "ok")
         /\ UNCHANGED transaction_stack

\* ---------------------------------------------------------------- transactions
\* A faulty begin: the depth test is off by one.
begin_beyond_bound ==
    IF Len(transaction_stack) > MAX_TRANSACTION_DEPTH
    THEN /\ last' = Call("begin", "RecursionError")
         /\ UNCHANGED <<main_db, counts, transaction_stack>>
    ELSE /\ transaction_stack' = Append(transaction_stack, EmptyFrame)
         /\ last' = Call("begin", "ok")
         /\ UNCHANGED <<main_db, counts>>

begin_transaction ==
    IF Len(transaction_stack) >= MAX_TRANSACTION_DEPTH
    THEN /\ last' = Call("begin", "RecursionError")
         /\ UNCHANGED <<main_db, counts, transaction_stack>>
    ELSE /\ transaction_stack' = Append(transaction_stack, EmptyFrame)
         /\ last' = Call("begin", "ok")
         /\ UNCHANGED <<main_db, counts>>

\* A faulty rollback: pop(0) instead of pop(), discarding the outermost frame.
rollback_pops_outermost ==
    IF transaction_stack = <<>>
    THEN /\ last' = Call("rollback", "False")
         /\ UNCHANGED <<main_db, counts, transaction_stack>>
    ELSE /\ transaction_stack' = Tail(transaction_stack)
         /\ last' = [Call("rollback", "True") EXCEPT
                        !.staged = Len(transaction_stack[1].updates)]
         /\ UNCHANGED <<main_db, counts>>

rollback_transaction ==
    IF transaction_stack = <<>>
    THEN /\ last' = Call("rollback", "False")
         /\ UNCHANGED <<main_db, counts, transaction_stack>>
    ELSE /\ transaction_stack' = SubSeq(transaction_stack, 1, Len(transaction_stack) - 1)
         /\ last' = [Call("rollback", "True") EXCEPT
                        !.staged = Len(transaction_stack[Len(transaction_stack)].updates)]
         /\ UNCHANGED <<main_db, counts>>

RECURSIVE ApplyItems(_, _, _)
\* The inner loop of commit_transaction over one frame's updates, from item i on.
\* A tombstone on a key the committed map does not hold reads self._main_db[key]
\* and raises KeyError; a tombstone on a key it holds does nothing.
ApplyItems(s, u, i) ==
    IF i > Len(u) THEN s
    ELSE LET key == u[i][1]
             value == u[i][2]
         IN IF value = "NULL"
            THEN IF key \notin DOMAIN s.db
                 THEN [s EXCEPT !.res = "KeyError"]
                 ELSE ApplyItems(s, u, i + 1)
            ELSE LET r == update_main_db(s.db, s.counts, key, value)
                 IN ApplyItems([s EXCEPT !.db = r.db, !.counts = r.counts], u, i + 1)

RECURSIVE CommitLoop(_)
\* The while loop of commit_transaction: pop(0) takes the OUTERMOST frame first,
\* and the loop runs until the stack is empty.
CommitLoop(s) ==
    IF s.stack = <<>> THEN s
    ELSE LET transaction == Head(s.stack)
             s1 == ApplyItems([s EXCEPT !.stack = Tail(s.stack)], transaction.updates, 1)
         IN IF s1.res = "KeyError" THEN s1 ELSE CommitLoop(s1)

commit_transaction ==
    IF transaction_stack = <<>>
    THEN /\ last' = Call("commit", "False")
         /\ UNCHANGED <<main_db, counts, transaction_stack>>
    ELSE LET s == CommitLoop([db |-> main_db, counts |-> counts,
                              stack |-> transaction_stack, res |-> "True"])
         IN /\ main_db' = s.db
            /\ counts' = s.counts
            /\ transaction_stack' = s.stack
            /\ last' = Call("commit", s.res)

\* ---------------------------------------------------------------- history
\* Everything the three reads return in a state.
ObserveIn(db, c, stack) ==
    [get |-> [k \in Keys |-> get_in(db, stack, k)],
     count |-> [v \in Values |-> count_in(db, c, stack, v)],
     find |-> [v \in Values |-> find_in(db, stack, v)]]
Observe == ObserveIn(main_db, counts, transaction_stack)

\* undone after any call but a rollback that pops a frame.
NothingUndone == [obs |-> <<>>, db |-> EmptyDict, counts |-> EmptyDict]

\* The frames below the innermost one.
Outer(stack) == SubSeq(stack, 1, Len(stack) - 1)

\* pre after a call that writes the committed map (a commit that finds a
\* frame, a successful set or unset with no transaction open), and pre
\* after any other call, given the frames that call has no business changing.
NotKept == [kept |-> FALSE, db |-> EmptyDict, counts |-> EmptyDict, frames |-> <<>>]
Kept(frames) == [kept |-> TRUE, db |-> main_db, counts |-> counts, frames |-> frames]
BeforeWrite ==
    IF last'.res # "ok" THEN Kept(transaction_stack)
    ELSE IF transaction_stack # <<>> THEN Kept(Outer(transaction_stack))
    ELSE NotKept

ScnIdle == [phase |-> 0, k |-> "", v |-> "", base |-> EmptyDict]

\* Phases of the call sequence
\*   begin (on an empty stack); writes to k only; begin; set(k, v); commit; rollback
\* where the writes are successful sets of values other than the string "NULL"
\* (the sequence of src/test.py:8-25 is one such).
\* 1: after the outer begin and any writes, 2: after the inner begin,
\* 3: after set(k, v), 4: after the commit, 5: after the rollback.
\* base is what get returned for every key before the outer begin.
ScnAfterBegin ==
    IF last'.res # "ok" THEN ScnIdle
    ELSE IF transaction_stack = <<>>
         THEN [phase |-> 1, k |-> "", v |-> "", base |-> [k \in Keys |-> get_value(k)]]
    ELSE IF scn.phase = 1 THEN [scn EXCEPT !.phase = 2]
    ELSE ScnIdle

ScnAfterWrite(key, value, isSet) ==
    IF last'.res # "ok" \/ ~isSet \/ value = "NULL" THEN ScnIdle
    ELSE IF scn.phase = 1 THEN scn
    ELSE IF scn.phase = 2 /\ ItemKeys(transaction_stack[1].updates) \subseteq {key}
         THEN [scn EXCEPT !.phase = 3, !.k = key, !.v = value]
    ELSE ScnIdle

ScnAfterCommit == IF scn.phase = 3 THEN [scn EXCEPT !.phase = 4] ELSE ScnIdle
ScnAfterRollback == IF scn.phase = 4 THEN [scn EXCEPT !.phase = 5] ELSE ScnIdle

\* ---------------------------------------------------------------- specification
InitWith(size) ==
    /\ main_db = EmptyDict
    /\ counts = EmptyDict
    /\ transaction_stack = <<>>
    /\ MAX_TRANSACTION_DEPTH = MaxDepthConfig
    /\ MAX_DB_SIZE = size
    /\ last = Call("init", "ok")
    /\ begun = <<>>
    /\ scn = ScnIdle
    /\ undone = NothingUndone
    /\ pre = NotKept

Init == InitWith(MaxSizeConfig)
InitTight == InitWith(TightSizeConfig)

\* An exception the dispatcher does not expect ends the session.
Running == last.res # "KeyError"

SetValue ==
    \E key \in KeyInputs, value \in ValueInputs :
        /\ Running
        /\ set_value(key, value)
        /\ scn' = ScnAfterWrite(key, value, TRUE)
        /\ undone' = NothingUndone
        /\ pre' = BeforeWrite
        /\ UNCHANGED <<begun, config>>

UnsetValue ==
    \E key \in KeyInputs :
        /\ Running
        /\ unset_value(key)
        /\ scn' = ScnAfterWrite(key, "NULL", FALSE)
        /\ undone' = NothingUndone
        /\ pre' = BeforeWrite
        /\ UNCHANGED <<begun, config>>

Begin ==
    /\ Running
    /\ begin_transaction
    /\ begun' = IF last'.res = "ok" THEN Append(begun, Observe) ELSE begun
    /\ scn' = ScnAfterBegin
    /\ undone' = NothingUndone
    /\ pre' = Kept(transaction_stack)
    /\ UNCHANGED config

Rollback ==
    /\ Running
    /\ rollback_transaction
    /\ begun' = SubSeq(begun, 1, Len(begun) - 1)
    /\ scn' = ScnAfterRollback
    /\ undone' = IF transaction_stack = <<>> THEN NothingUndone
                 ELSE [obs |-> begun[Len(begun)], db |-> main_db, counts |-> counts]
    /\ pre' = Kept(Outer(transaction_stack))
    /\ UNCHANGED config

\* The frames a commit leaves (when it raises) are the innermost ones.
Commit ==
    /\ Running
    /\ commit_transaction
    /\ begun' = SubSeq(begun, Len(begun) - Len(transaction_stack') + 1, Len(begun))
    /\ scn' = ScnAfterCommit
    /\ undone' = NothingUndone
    /\ pre' = IF transaction_stack = <<>> THEN Kept(<<>>) ELSE NotKept
    /\ UNCHANGED config

\* The reads return a value and change nothing; a read that raises ends the
\* session like any other unexpected exception.
GetValue ==
    \E key \in KeyInputs : Running /\ get_value(key) \in STRING /\ UNCHANGED vars

CountValues ==
    \E value \in ValueInputs :
        /\ Running
        /\ IF count_values(value).err = "KeyError"
           THEN /\ last' = Call("counts", "KeyError")
                /\ scn' = ScnIdle
                /\ undone' = NothingUndone
                /\ pre' = Kept(transaction_stack)
                /\ UNCHANGED <<main_db, counts, transaction_stack, begun, config>>
           ELSE UNCHANGED vars

FindKeys ==
    \E value \in ValueInputs : Running /\ find_keys(value).str \in STRING /\ UNCHANGED vars

Next ==
    \/ UnsetValue
    \/ SetValue
    \/ GetValue
    \/ CountValues
    \/ FindKeys
    \/ Begin
    \/ Rollback
    \/ Commit

Spec == Init /\ [][Next]_vars
SpecTight == InitTight /\ [][Next]_vars

\* ---------------------------------------------------------------- reference notions
\* The effective value of a key as section 3 of the specification defines it:
\* the entry of the innermost frame that mentions the key, else the committed
\* value, else the "NULL" sentinel.
Mentioning(k) == {i \in 1..Len(transaction_stack) : k \in ItemKeys(transaction_stack[i].updates)}
EffectiveValue(k) ==
    IF Mentioning(k) # {}
    THEN LET i == CHOOSE j \in Mentioning(k) : \A h \in Mentioning(k) : h <= j
         IN ItemGet(transaction_stack[i].updates, k)
    ELSE IF k \in DOMAIN main_db THEN main_db[k] ELSE "NULL"

\* The keys that read as v.
KeysWithValue(v) == {k \in Keys : get_value(k) = v}
\* Values that get can tell from absence.
PlainValues == Values \ {"NULL"}

\* ---------------------------------------------------------------- claims
\* C1: after begin (on an empty stack); sets of k; begin; set(k, v); commit,
\* the commit returns True and get(k) = v; a rollback issued next returns True
\* and get(k) is then what it was before the outer begin.
C1_NestedCommitIsSavepoint ==
    /\ scn.phase = 4 => (last.res = "True" /\ get_value(scn.k) = scn.v)
    /\ scn.phase = 5 => (last.res = "True" /\ get_value(scn.k) = scn.base[scn.k])

\* C2: a rollback that pops a frame leaves the committed map and the counters
\* untouched, and get, count_values and find_keys return for every key and
\* value what they returned when that frame was begun, whatever was staged in
\* the frame in between.
C2_RollbackUndoes ==
    (last.op = "rollback" /\ last.res = "True")
        => /\ Observe = undone.obs
           /\ main_db = undone.db
           /\ counts = undone.counts

\* A rollback has just thrown away staged writes over a non-empty committed map.
C2_Witness ==
    /\ last.op = "rollback" /\ last.res = "True" /\ last.staged >= 2
    /\ main_db # EmptyDict
    /\ transaction_stack # <<>>

\* C3: a commit at depth d >= 1 leaves depth d - 1.
C3_CommitPopsOneFrame ==
    [][(commit_transaction /\ transaction_stack # <<>>)
        => Len(transaction_stack') = Len(transaction_stack) - 1]_vars

\* C4: the commit of the only open frame deletes the keys the frame tombstoned,
\* stores the staged values, leaves the other keys alone, and so changes no
\* result of get.
C4_LastFrameCommitApplies ==
    [][(commit_transaction /\ Len(transaction_stack) = 1)
        => LET u == transaction_stack[1].updates
           IN \A k \in Keys :
                /\ (k \in ItemKeys(u) /\ ItemGet(u, k) = "NULL") => k \notin DOMAIN main_db'
                /\ (k \in ItemKeys(u) /\ ItemGet(u, k) # "NULL")
                      => (k \in DOMAIN main_db' /\ main_db'[k] = ItemGet(u, k))
                /\ (k \notin ItemKeys(u) /\ k \in DOMAIN main_db)
                      => (k \in DOMAIN main_db' /\ main_db'[k] = main_db[k])
                /\ (k \notin ItemKeys(u) /\ k \notin DOMAIN main_db) => k \notin DOMAIN main_db'
                /\ get_value(k)' = get_value(k)]_vars

\* C5: count_values(v) is the number of keys k with get(k) = v, in every state
\* (stated for the values other than the string "NULL", which get also returns
\* for an absent key).
C5_CountIsEffective ==
    \A v \in PlainValues : count_values(v) = Counted(Cardinality(KeysWithValue(v)))

\* C6: find_keys(v) is the sorted list of the keys k with get(k) = v, or "NULL"
\* when there is none (stated for the values other than the string "NULL").
C6_FindIsEffective ==
    \A v \in PlainValues :
        find_keys(v) = IF KeysWithValue(v) = {} THEN FoundStr("NULL")
                       ELSE Found(sorted(KeysWithValue(v)))

\* C7: count_values(v) equals the length of find_keys(v), "NULL" counting as 0.
C7_CountEqualsFindLength ==
    \A v \in Values : count_values(v) = Counted(Len(find_keys(v).keys))

\* C8: get(k) is the effective value of k: the entry of the innermost frame
\* that mentions k, else the committed value, else "NULL"; an outer frame's
\* entry never overrides an inner one's.
C8_GetIsEffective == \A k \in Keys : get_value(k) = EffectiveValue(k)

\* Two open frames and the committed map hold three different entries for one
\* key, and get returns the innermost frame's.
C8_Witness ==
    \E k \in Keys :
        /\ Len(transaction_stack) >= 2
        /\ k \in DOMAIN main_db
        /\ k \in ItemKeys(transaction_stack[1].updates)
        /\ k \in ItemKeys(transaction_stack[2].updates)
        /\ ItemGet(transaction_stack[1].updates, k) # ItemGet(transaction_stack[2].updates, k)
        /\ ItemGet(transaction_stack[1].updates, k) # main_db[k]
        /\ ItemGet(transaction_stack[2].updates, k) # main_db[k]
        /\ get_value(k) = ItemGet(transaction_stack[2].updates, k)

\* C9: set(k, v) with a valid key and value, then get(k), returns v, in every
\* state and at any depth.
C9_SetThenGet ==
    [][\A k \in Keys, v \in Values : set_value(k, v) => get_value(k)' = v]_vars

\* C10: with MAX_DB_SIZE or more committed keys, set on a key the committed map
\* does not hold raises MemoryError and changes nothing, transaction or not;
\* the committed map never grows beyond MAX_DB_SIZE.
C10_CapacityUnconditional ==
    [][/\ \A k \in Keys, v \in Values :
             (set_value(k, v) /\ db_size >= MAX_DB_SIZE /\ k \notin DOMAIN main_db)
                => /\ last'.res = "MemoryError"
                   /\ UNCHANGED <<main_db, counts, transaction_stack>>
       /\ Cardinality(DOMAIN main_db') <= MAX_DB_SIZE']_vars

\* C11: in every state, for every value v the counter of v is the number of
\* committed keys holding v, and no counter is kept at zero or below.
C11_CountsAreMembership ==
    /\ DOMAIN counts \subseteq Values
    /\ \A v \in DOMAIN counts : counts[v] > 0
    /\ \A v \in Values :
          (IF v \in DOMAIN counts THEN counts[v] ELSE 0)
              = Cardinality({k \in DOMAIN main_db : main_db[k] = v})

\* A commit has just overwritten the committed value of one key with the value
\* another committed key holds.
C11_Witness ==
    /\ scn.phase = 4 /\ last.res = "True"
    /\ scn.base[scn.k] \notin {"NULL", scn.v}
    /\ main_db[scn.k] = scn.v
    /\ scn.v \in DOMAIN counts /\ counts[scn.v] = 2

\* C12: the stack never holds more than MAX_TRANSACTION_DEPTH frames; begin at
\* that depth raises RecursionError and changes neither the stack nor the
\* committed map nor the counters; begin below it pushes exactly one empty
\* frame and changes nothing else.
C12_DepthBounded ==
    /\ Len(transaction_stack) <= MAX_TRANSACTION_DEPTH
    /\ last.op = "begin" =>
          /\ pre.kept /\ main_db = pre.db /\ counts = pre.counts
          /\ IF Len(pre.frames) >= MAX_TRANSACTION_DEPTH
             THEN last.res = "RecursionError" /\ transaction_stack = pre.frames
             ELSE last.res = "ok" /\ transaction_stack = Append(pre.frames, EmptyFrame)

\* begin has just been refused at full depth, over staged writes and a
\* non-empty committed map.
C12_Witness ==
    /\ last.op = "begin" /\ last.res = "RecursionError"
    /\ Len(transaction_stack) = MAX_TRANSACTION_DEPTH
    /\ \A i \in 1..(Len(transaction_stack) - 1) : transaction_stack[i].updates # <<>>
    /\ main_db # EmptyDict

\* The effective value of k is absent: the innermost frame that mentions k holds
\* a tombstone for it, or no frame mentions k and the committed map lacks it.
Absent(k) ==
    IF Mentioning(k) # {} THEN EffectiveValue(k) = "NULL" ELSE k \notin DOMAIN main_db

\* What a caller can observe of (db, c, stack): the reads now, and the outcome of
\* a commit or of a rollback issued next with the reads after it. The reads by
\* value are taken for the values that get can tell from absence.
ReadsIn(db, c, stack) ==
    [get |-> [k \in Keys |-> get_in(db, stack, k)],
     count |-> [v \in PlainValues |-> count_in(db, c, stack, v)],
     find |-> [v \in PlainValues |-> find_in(db, stack, v)]]
AfterCommit(db, c, stack) ==
    IF stack = <<>> THEN [res |-> "False", reads |-> ReadsIn(db, c, stack)]
    ELSE LET s == CommitLoop([db |-> db, counts |-> c, stack |-> stack, res |-> "True"])
         IN [res |-> s.res, reads |-> ReadsIn(s.db, s.counts, s.stack)]
AfterRollback(db, c, stack) ==
    IF stack = <<>> THEN [res |-> "False", reads |-> ReadsIn(db, c, stack)]
    ELSE [res |-> "True", reads |-> ReadsIn(db, c, Outer(stack))]
Observable(db, c, stack) ==
    [now |-> ReadsIn(db, c, stack),
     commit |-> AfterCommit(db, c, stack),
     rollback |-> AfterRollback(db, c, stack)]

\* C13: unset(k) leaves the effective value of k absent, and unset(k) on a key
\* whose effective value is already absent (a second unset(k) in particular)
\* changes nothing a caller can observe: not the reads, not the outcome of the
\* next commit or rollback; with or without an open transaction.
C13_UnsetIdempotent ==
    [][\A k \in Keys :
          unset_value(k) =>
              /\ Absent(k)'
              /\ Absent(k) => Observable(main_db, counts, transaction_stack)'
                                 = Observable(main_db, counts, transaction_stack)]_vars

\* C14: rollback and commit on an empty stack return False and change neither
\* the committed map nor the counters nor the stack; on a non-empty stack they
\* return True.
C14_NoTransactionSignal ==
    [][(rollback_transaction \/ commit_transaction)
          => IF transaction_stack = <<>>
             THEN last'.res = "False" /\ UNCHANGED <<main_db, counts, transaction_stack>>
             ELSE last'.res = "True"]_vars

\* What a call that did not run to completion leaves in last.res.
Failures == {"ValueError", "MemoryError", "RecursionError", "KeyError"}

\* C15: a call that fails leaves the committed map, the counters and the
\* transaction stack exactly as they were before the call; a commit, in
\* particular, never stops with some frames popped or some keys applied.
C15_NoPartialEffects ==
    [][last'.res \in Failures => UNCHANGED <<main_db, counts, transaction_stack>>]_vars

\* C16: a set or unset made while a transaction is open leaves the committed
\* map, the counters and every frame below the innermost one as they were; the
\* innermost frame then holds, as old value of each key it has touched, the
\* committed value of that key; the committed map and the counters are changed
\* by no call other than a set or unset with no transaction open and a commit.
C16_StagedWritesStayInFrame ==
    /\ (last.op \in {"set", "unset"} /\ last.res = "ok" /\ transaction_stack # <<>>)
          => /\ pre.kept
             /\ Outer(transaction_stack) = pre.frames
             /\ LET top == transaction_stack[Len(transaction_stack)]
                IN /\ top.updates # <<>>
                   /\ DOMAIN top.old_values = ItemKeys(top.updates) \cap DOMAIN main_db
                   /\ \A k \in DOMAIN top.old_values : top.old_values[k] = main_db[k]
    /\ pre.kept => (main_db = pre.db /\ counts = pre.counts)

\* A write has just been staged in the innermost of two frames, on a key that
\* the outer frame and the committed map hold with other values.
C16_Witness ==
    /\ last.op \in {"set", "unset"} /\ last.res = "ok"
    /\ Len(transaction_stack) = 2
    /\ \E k \in DOMAIN transaction_stack[2].old_values :
          /\ k \in ItemKeys(transaction_stack[1].updates)
          /\ k \in ItemKeys(transaction_stack[2].updates)
          /\ ItemGet(transaction_stack[2].updates, k) # ItemGet(transaction_stack[1].updates, k)
          /\ ItemGet(transaction_stack[2].updates, k) # main_db[k]

\* C17: a commit at depth 2 or more changes neither the committed map nor the
\* counters; it removes the innermost frame, gives the parent frame the removed
\* frame's entry for every key that frame touched, keeps the parent's entries
\* for the other keys, and leaves the frames below the parent as they were.
C17_InnerCommitMergesIntoParent ==
    [][(commit_transaction /\ Len(transaction_stack) >= 2)
          => LET d == Len(transaction_stack)
                 popped == transaction_stack[d].updates
                 parent == transaction_stack[d - 1].updates
             IN /\ UNCHANGED <<main_db, counts>>
                /\ Len(transaction_stack') = d - 1
                /\ SubSeq(transaction_stack', 1, d - 2) = SubSeq(transaction_stack, 1, d - 2)
                /\ \A k \in Keys :
                      LET merged == transaction_stack'[d - 1].updates
                      IN IF k \in ItemKeys(popped)
                         THEN k \in ItemKeys(merged) /\ ItemGet(merged, k) = ItemGet(popped, k)
                         ELSE /\ (k \in ItemKeys(merged)) = (k \in ItemKeys(parent))
                              /\ k \in ItemKeys(parent) => ItemGet(merged, k) = ItemGet(parent, k)]_vars

\* C18: set with a valid key and value, while the committed map is below
\* MAX_DB_SIZE, succeeds at every depth, the depth MAX_TRANSACTION_DEPTH that
\* begin allows included: RecursionError comes from begin only.
C18_SetSucceedsAtAnyDepth ==
    [][\A k \in Keys, v \in Values :
          (set_value(k, v) /\ db_size < MAX_DB_SIZE) => last'.res = "ok"]_vars

\* C19: in every state count_values(v), for a valid v, returns an integer that
\* is zero or more; it never raises and never returns an error.
C19_CountNeverNegative ==
    \A v \in Values : count_values(v).err = "" /\ count_values(v).n >= 0

\* C20: begin; set(k, v); commit, for any valid v, the string "NULL" included,
\* returns True and leaves the committed map and the counters exactly as
\* set(k, v) with no transaction open would have left them: k holds v and is
\* counted once under v. (The commit is that of a single frame whose only
\* entry is the one the set just before it wrote.)
C20_StagedSetIsNeverADeletion ==
    [][(/\ commit_transaction
        /\ last.op = "set" /\ last.res = "ok"
        /\ Len(transaction_stack) = 1
        /\ Len(transaction_stack[1].updates) = 1)
          => LET k == transaction_stack[1].updates[1][1]
                 v == transaction_stack[1].updates[1][2]
                 direct == update_main_db(main_db, counts, k, v)
             IN /\ last'.res = "True"
                /\ transaction_stack' = <<>>
                /\ main_db' = direct.db
                /\ counts' = direct.counts
                /\ main_db'[k] = v]_vars
====
